---- MODULE Spec2Model ----
(***************************************************************************)
(* HSR/PRP frame forwarding: net/hsr-prp/hsr_prp_forward.c.                *)
(*                                                                         *)
(* A frame buffer (sk_buff data, from the mac header on) is a sequence of  *)
(* 16-bit words: words 1..3 the destination address, 4..6 the source       *)
(* address, word 7 the ethertype, then the HSR tag or the payload.  Frames *)
(* are zero padded on the wire; only the words before the padding are kept.*)
(* One pass of hsr_prp_forward_skb runs on one cpu; passes on different    *)
(* cpus interleave between their accesses to shared state (the sequence    *)
(* counter and its lock, the node registry, the device statistics).        *)
(***************************************************************************)
EXTENDS Integers, Sequences, FiniteSets, TLC

\* ------------------------------------------------------------ bounds
\* Frames received in one behaviour.
MaxFrames == 2
\* Allocations (__pskb_copy, skb_clone) that fail in one behaviour.
MaxNoMem == 1

\* ------------------------------------------------- program constants
ETH_P_PRP == 35067
ETH_P_HSR == 35119
ETH_P_8021Q == 33024
ETH_P_IP == 2048
ETH_ALEN == 6
ETH_HLEN == 14
VLAN_HLEN == 4
HSR_PRP_HLEN == 6
HSR_TLV_ANNOUNCE == 22
HSR_TLV_LIFE_CHECK == 23
\* sizeof(struct hsr_prp_sup_payload): one mac address
SUP_PAYLOAD_LEN == 6
\* u16 sequence_nr
SEQNR_MOD == 65536

HSR_PRP_PT_SLAVE_A == "SLAVE_A"
HSR_PRP_PT_SLAVE_B == "SLAVE_B"
HSR_PRP_PT_INTERLINK == "INTERLINK"
HSR_PRP_PT_MASTER == "MASTER"

PACKET_HOST == "HOST"
PACKET_BROADCAST == "BROADCAST"
PACKET_MULTICAST == "MULTICAST"
PACKET_OTHERHOST == "OTHERHOST"

\* Addresses, three words each.
ADDR_SELF == <<2, 0, 1>>
ADDR_SUP_MCAST == <<277, 19968, 0>>
ADDR_BCAST == <<65535, 65535, 65535>>
ADDR_OTHER == <<2, 0, 9>>
\* The two interfaces of the remote node n1.
ADDR_N1_A == <<2, 0, 16>>
ADDR_N1_B == <<2, 0, 17>>
\* The address of the outgoing slave's device (port->dev->dev_addr).
dev_addr(type) == ADDR_SELF

NULL == "NULL"
UNINIT == "UNINIT"
NoSkb == [data |-> <<>>, pkt_type |-> "none", mac_ok |-> TRUE]

\* ------------------------------------------------------- buffer access
Words(nbytes) == nbytes \div 2

\* The word at position i; the padding reads as zero.
Word(data, i) == IF i <= Len(data) THEN data[i] ELSE 0

\* skb->len, in bytes
skb_len(data) == 2 * Len(data)

h_dest(data) == SubSeq(data, 1, Words(ETH_ALEN))
h_source(data) == SubSeq(data, Words(ETH_ALEN) + 1, Words(2 * ETH_ALEN))
h_proto(data) == Word(data, Words(ETH_HLEN))

\* struct hsr_tag, right after the ethernet header
tag_path_and_LSDU_size(data) == Word(data, Words(ETH_HLEN) + 1)
tag_sequence_nr(data) == Word(data, Words(ETH_HLEN) + 2)
tag_encap_proto(data) == Word(data, Words(ETH_HLEN) + 3)

\* HSR_TLV_type and HSR_TLV_length share one word.
TLV(type, length) == type * 256 + length
TLV_type(w) == w \div 256
TLV_length(w) == w % 256

\* struct hsr_prp_sup_tag: path_and_HSR_ver, sequence_nr, TLV type, TLV length.
\* HSRv0 (hsrv0_ethhdr_sp) has it after the ethernet header, HSRv1
\* (hsrv1_ethhdr_sp) after the HSR tag.
sup_tlv_v0(data) == Word(data, Words(ETH_HLEN) + 3)
sup_tlv_v1(data) == Word(data, Words(ETH_HLEN) + Words(HSR_PRP_HLEN) + 3)

is_supervision_frame(data) ==
    IF h_dest(data) # ADDR_SUP_MCAST THEN FALSE
    ELSE IF ~(h_proto(data) = ETH_P_PRP \/ h_proto(data) = ETH_P_HSR) THEN FALSE
    ELSE IF h_proto(data) = ETH_P_HSR /\ tag_encap_proto(data) # ETH_P_PRP THEN FALSE
    ELSE LET tlv == IF h_proto(data) = ETH_P_HSR
                    THEN sup_tlv_v1(data) ELSE sup_tlv_v0(data)
         IN IF TLV_type(tlv) # HSR_TLV_ANNOUNCE /\ TLV_type(tlv) # HSR_TLV_LIFE_CHECK
            THEN FALSE
            ELSE IF TLV_length(tlv) # 12 /\ TLV_length(tlv) # SUP_PAYLOAD_LEN
            THEN FALSE
            ELSE TRUE

\* hsr_get_skb_sequence_nr: the sequence number of the tag
hsr_get_skb_sequence_nr(data) == tag_sequence_nr(data)

\* ----------------------------------------------------------- tag codec
\* A strip that leaves out the memcpy of the addresses.
create_stripped_skb_no_memcpy(skb_in, is_vlan) ==
    [skb_in EXCEPT !.data = SubSeq(@, HSR_PRP_HLEN \div 2 + 1, Len(@))]

\* skb_pull: the data starts nbytes later; the bytes stay in the headroom.
skb_pull(data, nbytes) ==
    [headroom |-> SubSeq(data, 1, nbytes \div 2),
     data |-> SubSeq(data, nbytes \div 2 + 1, Len(data))]

\* skb_push: the data starts nbytes earlier, on what the headroom holds.
skb_push(b, nbytes) ==
    SubSeq(b.headroom, Len(b.headroom) - nbytes \div 2 + 1, Len(b.headroom))
    \o b.data

\* The input of create_stripped_skb when it returns: pulled for the copy and
\* pushed back; the memcpy reads it.
create_stripped_skb_in(skb_in) ==
    [skb_in EXCEPT !.data = skb_push(skb_pull(@, HSR_PRP_HLEN), HSR_PRP_HLEN)]

\* The copy made after skb_pull(HSR_PRP_HLEN) starts HSR_PRP_HLEN bytes into
\* the input; the first copylen bytes of the input are then copied over its
\* start.
create_stripped_skb(skb_in, is_vlan) ==
    LET copylen == 2 * ETH_ALEN + (IF is_vlan THEN VLAN_HLEN ELSE 0)
        pulled == SubSeq(skb_in.data, Words(HSR_PRP_HLEN) + 1, Len(skb_in.data))
        out == SubSeq(skb_in.data, 1, Words(copylen))
               \o SubSeq(pulled, Words(copylen) + 1, Len(pulled))
    IN [skb_in EXCEPT !.data = out]

set_hsr_tag_path(w, path) == (w % 4096) + path * 4096
set_hsr_tag_LSDU_size(w, size) == (w \div 4096) * 4096 + (size % 4096)

hsr_fill_tag(data, is_vlan, sequence_nr, type, proto_ver) ==
    LET lane_id == IF type = HSR_PRP_PT_SLAVE_A THEN 0 ELSE 1
        lsdu_size == skb_len(data) - 14 - (IF is_vlan THEN 4 ELSE 0)
        t == Words(ETH_HLEN)
    IN [data EXCEPT
          ![t + 1] = set_hsr_tag_LSDU_size(set_hsr_tag_path(@, lane_id), lsdu_size),
          ![t + 2] = sequence_nr,
          ![t + 3] = data[t],
          ![t] = IF proto_ver # 0 THEN ETH_P_HSR ELSE ETH_P_PRP]

\* skb_push(HSR_PRP_HLEN) makes room in front of the copy; the first movelen
\* bytes move to the new start, and what they leave behind is overwritten by
\* the tag (or, with VLAN, by the moved bytes and the tag).
create_tagged_skb(skb_o, is_vlan, sequence_nr, type, proto_ver) ==
    LET movelen == ETH_HLEN + (IF is_vlan THEN VLAN_HLEN ELSE 0)
        pushed == [i \in 1..Words(HSR_PRP_HLEN) |-> 0] \o skb_o.data
        moved == [i \in 1..Len(pushed) |->
                    IF i <= Words(movelen)
                    THEN pushed[i + Words(HSR_PRP_HLEN)] ELSE pushed[i]]
    IN [skb_o EXCEPT !.data = hsr_fill_tag(moved, is_vlan, sequence_nr, type, proto_ver)]

\* ----------------------------------------------- external collaborators
\* The registry entry of the sender: the two interfaces of n1 are one node,
\* the node's own address is its own entry.
node_of(src) ==
    IF src = ADDR_N1_A \/ src = ADDR_N1_B THEN "n1"
    ELSE IF src = ADDR_SELF THEN "self" ELSE "nx"

\* hsr_prp_get_node: the sender's entry, or NULL (unknown sender that is not
\* announced by a supervision frame, or no memory).
hsr_prp_get_node(data) == {node_of(h_source(data)), NULL}

SetWords(data, first, addr) ==
    [i \in 1..Len(data) |->
        IF i >= first /\ i < first + Len(addr) THEN addr[i - first + 1] ELSE data[i]]

\* hsr_addr_subst_source: a frame sent from the node's interface B gets the
\* address of its interface A as source.
hsr_addr_subst_source(node, data) ==
    IF node = "n1" /\ h_source(data) = ADDR_N1_B
    THEN SetWords(data, Words(ETH_ALEN) + 1, ADDR_N1_A) ELSE data

\* hsr_addr_subst_dest: a frame for the node's interface A that leaves through
\* slave B gets the address of its interface B as destination.
hsr_addr_subst_dest(data, type) ==
    IF h_dest(data) = ADDR_N1_A /\ type = HSR_PRP_PT_SLAVE_B
    THEN SetWords(data, 1, ADDR_N1_B) ELSE data

\* ----------------------------------------------------------- the wire
PAYLOAD == 43981
TagSeqs == {0, 1}

Untagged(dest, src, proto) == dest \o src \o <<proto, PAYLOAD>>
VlanFrame(dest, src) == dest \o src \o <<ETH_P_8021Q, 5, ETH_P_IP, PAYLOAD>>
Tagged(dest, src, outer, path, seq, encap) ==
    dest \o src \o <<outer, path * 4096 + 2, seq, encap, PAYLOAD>>
SupV0(src, seq, tlv) ==
    ADDR_SUP_MCAST \o src \o <<ETH_P_PRP, 0, seq, tlv>> \o src
SupV1(src, seq, tlv) ==
    ADDR_SUP_MCAST \o src \o <<ETH_P_HSR, 8, seq, ETH_P_PRP, 4096, seq, tlv>> \o src

\* eth_type_trans on a slave: the class of the destination address. A frame
\* for the node may carry PACKET_OTHERHOST when the slave's own address differs.
\* A frame the upper layer sends through the master keeps the default class.
PktTypes(type, data) ==
    IF type = HSR_PRP_PT_MASTER THEN {PACKET_HOST}
    ELSE IF h_dest(data) = ADDR_BCAST THEN {PACKET_BROADCAST}
    ELSE IF h_dest(data) = ADDR_SUP_MCAST THEN {PACKET_MULTICAST}
    ELSE IF h_dest(data) = ADDR_SELF THEN {PACKET_HOST, PACKET_OTHERHOST}
    ELSE {PACKET_OTHERHOST}

\* What slave A receives from the peer n1.
SlaveData ==
    {Untagged(d, ADDR_N1_B, ETH_P_IP) : d \in {ADDR_SELF, ADDR_BCAST, ADDR_OTHER}}
    \cup {VlanFrame(ADDR_BCAST, ADDR_N1_B)}
    \cup {Tagged(d, ADDR_N1_B, ETH_P_PRP, 0, 0, ETH_P_IP) :
            d \in {ADDR_SELF, ADDR_BCAST, ADDR_OTHER}}
    \cup {Tagged(ADDR_BCAST, ADDR_N1_B, ETH_P_PRP, 0, s, ETH_P_IP) : s \in TagSeqs}
    \cup {Tagged(ADDR_SUP_MCAST, ADDR_N1_B, ETH_P_HSR, 1, 0, ETH_P_IP)}
    \cup {SupV0(ADDR_N1_B, 1, TLV(HSR_TLV_ANNOUNCE, 12)),
          SupV0(ADDR_N1_B, 1, TLV(HSR_TLV_ANNOUNCE, 8)),
          SupV1(ADDR_N1_B, 1, TLV(HSR_TLV_LIFE_CHECK, SUP_PAYLOAD_LEN)),
          SupV1(ADDR_N1_B, 1, TLV(21, 12))}

\* What slave B receives from the peer n1: the second copies of frames of
\* slave A, and a plain frame.
SlaveBData ==
    {Tagged(d, ADDR_N1_B, ETH_P_PRP, 0, 0, ETH_P_IP) : d \in {ADDR_SELF, ADDR_BCAST}}
    \cup {Untagged(ADDR_BCAST, ADDR_N1_B, ETH_P_IP),
          SupV0(ADDR_N1_B, 1, TLV(HSR_TLV_ANNOUNCE, 12))}

\* What the upper layer sends through the master: plain frames, and the
\* node's own supervision frames.
MasterData ==
    {Untagged(d, ADDR_SELF, ETH_P_IP) : d \in {ADDR_N1_A, ADDR_BCAST, ADDR_SELF}}
    \cup {SupV0(ADDR_SELF, 0, TLV(HSR_TLV_LIFE_CHECK, 12))}

\* What an interlink port receives.
InterlinkData ==
    {Untagged(ADDR_BCAST, ADDR_N1_B, ETH_P_IP),
     Tagged(ADDR_BCAST, ADDR_N1_B, ETH_P_HSR, 0, 0, ETH_P_IP)}

PortData(type) ==
    IF type = HSR_PRP_PT_MASTER THEN MasterData
    ELSE IF type = HSR_PRP_PT_INTERLINK THEN InterlinkData
    ELSE IF type = HSR_PRP_PT_SLAVE_B THEN SlaveBData
    ELSE SlaveData

\* The frames of the two-cpu runs: the two copies of one frame on the two
\* slaves, plain frames that take a sequence number, a supervision frame.
SmpData(type) ==
    IF type = HSR_PRP_PT_MASTER
    THEN {Untagged(ADDR_BCAST, ADDR_SELF, ETH_P_IP)}
    ELSE IF type = HSR_PRP_PT_INTERLINK THEN {}
    ELSE {Tagged(ADDR_BCAST, ADDR_N1_B, ETH_P_PRP, 0, 0, ETH_P_IP),
          Tagged(ADDR_SELF, ADDR_N1_B, ETH_P_PRP, 0, 0, ETH_P_IP),
          Untagged(ADDR_BCAST, ADDR_N1_B, ETH_P_IP),
          SupV0(ADDR_N1_B, 1, TLV(HSR_TLV_ANNOUNCE, 12))}

\* A received buffer: the frame, its class, and whether the mac header is at
\* the start of the data (skb_mac_header(skb) = skb->data).
Skbs(type, smp) ==
    LET frames == IF smp THEN SmpData(type) ELSE PortData(type)
    IN UNION {{[data |-> d, pkt_type |-> k, mac_ok |-> TRUE] :
                    k \in PktTypes(type, d)} : d \in frames}
       \cup {[data |-> d, pkt_type |-> PACKET_OTHERHOST, mac_ok |-> FALSE] :
            d \in {f \in frames : h_dest(f) = ADDR_BCAST /\ h_proto(f) = ETH_P_IP
                                   /\ type # HSR_PRP_PT_INTERLINK}}

\* --------------------------------------------------------------- state
Cpus == {"cpu0", "cpu1"}

VARIABLES
    priv,           \* struct hsr_prp_priv: rx_offloaded, l2_fwd_offloaded, prot_ver, ports
    cpus,           \* the cpus that run hsr_prp_forward_skb
    sequence_nr,    \* priv->sequence_nr
    seqnr_lock,     \* priv->seqnr_lock: its holder, or "free"
    seq_out,        \* the registry: (node, sequence_nr, port) marked as sent
    tx_dropped,     \* port->dev->stats.tx_dropped, per port
    nrecv,          \* frames received so far
    hist,           \* what was dispatched and which numbers were handed out
    pc,             \* per cpu: the place in hsr_prp_forward_skb
    skb,            \* per cpu: the received buffer
    port_in,        \* per cpu: the receiving port
    frame,          \* per cpu: struct hsr_prp_frame_info
    idx,            \* per cpu: the position of hsr_prp_for_each_port
    log,            \* per cpu: what the pass did for each port
    obs             \* per cpu: the calls and releases of the pass

vars == <<priv, cpus, sequence_nr, seqnr_lock, seq_out, tx_dropped, nrecv, hist,
          pc, skb, port_in, frame, idx, log, obs>>

\* The list of hsr_prp_for_each_port: the master, the two slaves, and an
\* interlink port when the device has one.
PortLists ==
    {<<HSR_PRP_PT_MASTER, HSR_PRP_PT_SLAVE_A, HSR_PRP_PT_SLAVE_B>>,
     <<HSR_PRP_PT_MASTER, HSR_PRP_PT_SLAVE_A, HSR_PRP_PT_SLAVE_B,
       HSR_PRP_PT_INTERLINK>>}

PortTypes == {HSR_PRP_PT_MASTER, HSR_PRP_PT_SLAVE_A, HSR_PRP_PT_SLAVE_B,
              HSR_PRP_PT_INTERLINK}

Range(seq) == {seq[i] : i \in DOMAIN seq}

\* The counter's values at start: any u16; the last one makes it wrap.
SeqNrStarts == {SEQNR_MOD - 1}

\* struct hsr_prp_frame_info on the stack, before hsr_prp_fill_frame_info.
NoFrame ==
    [skb_std |-> NoSkb, skb_hsr |-> NoSkb, port_rcv |-> UNINIT,
     node_src |-> UNINIT, sequence_nr |-> -1, is_supervision |-> FALSE,
     is_vlan |-> FALSE, is_local_dest |-> FALSE, is_local_exclusive |-> FALSE]

NoObs ==
    [get_node |-> 0, register_in |-> 0, register_out |-> 0, handle_sup |-> 0,
     kfree_skb |-> 0, kfree_std |-> 0, nomem |-> 0]

Count(f, x) == IF x \in DOMAIN f THEN f[x] ELSE 0
Bump(f, x) == (x :> (Count(f, x) + 1)) @@ f

PrivConfigs ==
    [rx_offloaded : BOOLEAN, l2_fwd_offloaded : BOOLEAN, prot_ver : {0, 1},
     ports : PortLists]

InitShared ==
    /\ priv \in PrivConfigs
    /\ sequence_nr \in SeqNrStarts
    /\ seqnr_lock = "free"
    /\ seq_out = {}
    /\ tx_dropped = [p \in PortTypes |-> 0]
    /\ nrecv = 0
    /\ hist = [seq0 |-> sequence_nr, assigned |-> <<>>, dispatched |-> <<>>,
               nomem |-> 0]
    /\ pc = [t \in Cpus |-> "idle"]
    /\ skb = [t \in Cpus |-> NoSkb]
    /\ port_in = [t \in Cpus |-> NULL]
    /\ frame = [t \in Cpus |-> NoFrame]
    /\ idx = [t \in Cpus |-> 0]
    /\ log = [t \in Cpus |-> <<>>]
    /\ obs = [t \in Cpus |-> NoObs]

\* One cpu: the passes run one after the other.
Init == InitShared /\ cpus = {"cpu0"}

\* Two cpus: two passes interleave, on the device without an interlink port.
InitSMP ==
    /\ InitShared
    /\ cpus = Cpus
    /\ Len(priv.ports) = 3
    /\ priv.prot_ver = 1

\* ------------------------------------------------------- hsr_prp_forward_skb
\* An entry that takes every buffer as well formed.
malformed_never(b) == FALSE

\* skb_mac_header(skb) != skb->data
malformed(b) == ~b.mac_ok

\* A frame arrives on a port no other running pass received its frame on
\* (a device's receive path runs on one cpu at a time).
Receive(t) ==
    /\ t \in cpus
    /\ pc[t] = "idle"
    /\ nrecv < MaxFrames
    /\ \E p \in Range(priv.ports) :
         /\ \A u \in Cpus \ {t} : port_in[u] # p
         /\ \E b \in Skbs(p, cpus = Cpus) :
              /\ skb' = [skb EXCEPT ![t] = b]
              /\ port_in' = [port_in EXCEPT ![t] = p]
              /\ pc' = [pc EXCEPT ![t] =
                          IF malformed(b) THEN "out_drop" ELSE "fill_frame_info"]
    /\ nrecv' = nrecv + 1
    /\ UNCHANGED <<priv, cpus, sequence_nr, seqnr_lock, seq_out, tx_dropped,
                   hist, frame, idx, log, obs>>

check_local_dest(b) ==
    LET self == h_dest(b.data) = ADDR_SELF
        pkt_type == IF self THEN PACKET_HOST ELSE b.pkt_type
    IN [is_local_exclusive |-> self,
        pkt_type |-> pkt_type,
        is_local_dest |-> pkt_type \in {PACKET_HOST, PACKET_MULTICAST,
                                        PACKET_BROADCAST}]

\* The end of hsr_prp_fill_frame_info: port_rcv and check_local_dest, which
\* also sets the class of the received buffer.
FrameLocal(f, b, p) ==
    LET c == check_local_dest(b)
        own == [b EXCEPT !.pkt_type = c.pkt_type]
    IN [f EXCEPT !.port_rcv = p,
                 !.is_local_exclusive = c.is_local_exclusive,
                 !.is_local_dest = c.is_local_dest,
                 !.skb_std = IF @ = NoSkb THEN NoSkb ELSE own,
                 !.skb_hsr = IF @ = NoSkb THEN NoSkb ELSE own]

\* A classifier that lets every supervision frame through.
sup_unexpected_never(is_sup, p) == FALSE

\* A supervision frame from a slave while the hardware handles them.
sup_unexpected(is_sup, p) ==
    is_sup /\ priv.rx_offloaded /\ p # HSR_PRP_PT_MASTER

is_tagged(data) == h_proto(data) = ETH_P_PRP \/ h_proto(data) = ETH_P_HSR

\* A classifier that never sees the 802.1Q ethertype.
is_vlan_never(data) == FALSE

is_vlan_frame(data) == h_proto(data) = ETH_P_8021Q

\* hsr_prp_fill_frame_info up to the sequence number: a tagged frame takes the
\* number of its tag and is classified; an untagged one goes for the counter.
FillFrameInfo(t) ==
    /\ pc[t] = "fill_frame_info"
    /\ LET b == skb[t]
           is_sup == is_supervision_frame(b.data)
           f0 == [frame[t] EXCEPT !.is_supervision = is_sup]
       IN IF sup_unexpected(is_sup, port_in[t])
          THEN /\ frame' = [frame EXCEPT ![t] = f0]
               /\ pc' = [pc EXCEPT ![t] = "out_drop"]
               /\ obs' = obs
          ELSE \E n \in (IF priv.rx_offloaded THEN {UNINIT}
                         ELSE hsr_prp_get_node(b.data)) :
                 LET f1 == [f0 EXCEPT !.node_src = n,
                                      !.is_vlan = is_vlan_frame(b.data)]
                 IN /\ obs' = [obs EXCEPT ![t].get_node =
                                  IF priv.rx_offloaded THEN @ ELSE @ + 1]
                    /\ IF n = NULL
                       THEN /\ frame' = [frame EXCEPT ![t] =
                                          [f0 EXCEPT !.node_src = NULL]]
                            /\ pc' = [pc EXCEPT ![t] = "out_drop"]
                       ELSE IF is_tagged(b.data)
                       THEN /\ frame' = [frame EXCEPT ![t] =
                                  FrameLocal([f1 EXCEPT
                                      !.skb_hsr = b,
                                      !.sequence_nr = hsr_get_skb_sequence_nr(b.data)],
                                    b, port_in[t])]
                            /\ pc' = [pc EXCEPT ![t] = "register_in"]
                       ELSE /\ frame' = [frame EXCEPT ![t] =
                                          [f1 EXCEPT !.skb_std = b]]
                            /\ pc' = [pc EXCEPT ![t] = "seq_lock"]
    /\ UNCHANGED <<priv, cpus, sequence_nr, seqnr_lock, seq_out, tx_dropped,
                   nrecv, hist, skb, port_in, idx, log>>

\* A lock that is taken without waiting.
lock_free_always(t) == TRUE

\* spin_lock_irqsave(&priv->seqnr_lock): spins until the lock is free.
lock_free(t) == seqnr_lock = "free"

SeqLock(t) ==
    /\ pc[t] = "seq_lock"
    /\ lock_free(t)
    /\ seqnr_lock' = t
    /\ pc' = [pc EXCEPT ![t] = "seq_read"]
    /\ UNCHANGED <<priv, cpus, sequence_nr, seq_out, tx_dropped, nrecv, hist,
                   skb, port_in, frame, idx, log, obs>>

\* frame->sequence_nr = priv->sequence_nr
SeqRead(t) ==
    /\ pc[t] = "seq_read"
    /\ frame' = [frame EXCEPT ![t].sequence_nr = sequence_nr]
    /\ hist' = [hist EXCEPT !.assigned = Bump(@, sequence_nr)]
    /\ pc' = [pc EXCEPT ![t] = "seq_inc"]
    /\ UNCHANGED <<priv, cpus, sequence_nr, seqnr_lock, seq_out, tx_dropped,
                   nrecv, skb, port_in, idx, log, obs>>

seq_next(n) == (n + 1) % SEQNR_MOD

\* priv->sequence_nr++
SeqInc(t) ==
    /\ pc[t] = "seq_inc"
    /\ sequence_nr' = seq_next(sequence_nr)
    /\ pc' = [pc EXCEPT ![t] = "seq_unlock"]
    /\ UNCHANGED <<priv, cpus, seqnr_lock, seq_out, tx_dropped, nrecv, hist,
                   skb, port_in, frame, idx, log, obs>>

\* spin_unlock_irqrestore, then the end of hsr_prp_fill_frame_info.
SeqUnlock(t) ==
    /\ pc[t] = "seq_unlock"
    /\ seqnr_lock' = "free"
    /\ frame' = [frame EXCEPT ![t] = FrameLocal(@, skb[t], port_in[t])]
    /\ pc' = [pc EXCEPT ![t] = "register_in"]
    /\ UNCHANGED <<priv, cpus, sequence_nr, seq_out, tx_dropped, nrecv, hist,
                   skb, port_in, idx, log, obs>>

\* hsr_register_frame_in, unless receive is offloaded; then hsr_prp_forward_do.
RegisterIn(t) ==
    /\ pc[t] = "register_in"
    /\ obs' = [obs EXCEPT ![t].register_in =
                  IF priv.rx_offloaded THEN @ ELSE @ + 1]
    /\ pc' = [pc EXCEPT ![t] = "forward_do"]
    /\ idx' = [idx EXCEPT ![t] = 1]
    /\ UNCHANGED <<priv, cpus, sequence_nr, seqnr_lock, seq_out, tx_dropped,
                   nrecv, hist, skb, port_in, frame, log>>

\* out_drop: the drop counter of the receiving port's device, kfree_skb(skb).
Drop(t) ==
    /\ pc[t] = "out_drop"
    /\ tx_dropped' = [tx_dropped EXCEPT ![port_in[t]] = @ + 1]
    /\ obs' = [obs EXCEPT ![t].kfree_skb = @ + 1]
    /\ pc' = [pc EXCEPT ![t] = "dropped"]
    /\ UNCHANGED <<priv, cpus, sequence_nr, seqnr_lock, seq_out, nrecv, hist,
                   skb, port_in, frame, idx, log>>

\* -------------------------------------------------------- hsr_prp_forward_do
\* A loop that does not look at the receiving port.
skip_rcv_never(port, f) == FALSE

\* Don't send frame back the way it came
skip_rcv(port, f) == port = f.port_rcv

\* A loop that delivers every frame to the master.
skip_not_local_never(port, f) == FALSE

\* Don't deliver locally unless we should
skip_not_local(port, f) == port = HSR_PRP_PT_MASTER /\ ~f.is_local_dest

\* A loop that replicates frames addressed to the node itself.
skip_exclusive_never(port, f) == FALSE

\* Deliver frames directly addressed to us to master only
skip_exclusive(port, f) == port # HSR_PRP_PT_MASTER /\ f.is_local_exclusive

\* A loop that never asks hsr_register_frame_out.
check_dup_never(port) == FALSE

\* hsr_register_frame_out is asked unless receive is offloaded
check_dup(port) == ~priv.rx_offloaded

\* A call that passes the master to hsr_register_frame_out for every port.
out_key_master(port, f) == <<f.node_src, f.sequence_nr, HSR_PRP_PT_MASTER>>

\* A call that passes the receiving port to hsr_register_frame_out.
out_key_port_rcv(port, f) == <<f.node_src, f.sequence_nr, f.port_rcv>>

\* The registry's key of a frame on a port.
out_key(port, f) == <<f.node_src, f.sequence_nr, port>>

\* hsr_register_frame_out: test and set, in one step; TRUE when already sent.
hsr_register_frame_out(key) == key \in seq_out

\* A supervision branch that is taken at every port.
intercept_sup_any_port(port, f) == f.is_supervision /\ ~priv.rx_offloaded

\* A loop without the supervision branch.
intercept_sup_never(port, f) == FALSE

\* A supervision frame is handed to hsr_prp_handle_sup_frame at the master.
intercept_sup(port, f) ==
    f.is_supervision /\ port = HSR_PRP_PT_MASTER /\ ~priv.rx_offloaded

\* A loop that takes l2_fwd_offloaded without looking at the two ports.
skip_l2_any_port(port, f) == priv.l2_fwd_offloaded

\* A loop that ignores l2_fwd_offloaded.
skip_l2_never(port, f) == FALSE

\* if L2 forward is offloaded, don't forward frame across slaves
skip_l2(port, f) ==
    /\ priv.l2_fwd_offloaded
    /\ \/ f.port_rcv = HSR_PRP_PT_SLAVE_A /\ port = HSR_PRP_PT_SLAVE_B
       \/ f.port_rcv = HSR_PRP_PT_SLAVE_B /\ port = HSR_PRP_PT_SLAVE_A

\* A frame_get_tagged_skb without the test of the port's type.
frame_get_tagged_skb_any_port(f, port, alloc_ok) ==
    IF f.skb_hsr # NoSkb
    THEN [skb |-> IF alloc_ok THEN f.skb_hsr ELSE NoSkb, shares |-> "skb_hsr"]
    ELSE [skb |-> IF alloc_ok
                  THEN create_tagged_skb(f.skb_std, f.is_vlan, f.sequence_nr,
                                         port, priv.prot_ver)
                  ELSE NoSkb,
          shares |-> "none"]

\* The copy for a slave or interlink port, NoSkb for none, and the buffer of
\* the frame it shares its data with ("none" for a copy of its own).
frame_get_tagged_skb(f, port, alloc_ok) ==
    IF f.skb_hsr # NoSkb
    THEN [skb |-> IF alloc_ok THEN f.skb_hsr ELSE NoSkb, shares |-> "skb_hsr"]
    ELSE IF port # HSR_PRP_PT_SLAVE_A /\ port # HSR_PRP_PT_SLAVE_B
    THEN [skb |-> NoSkb, shares |-> "none"]
    ELSE [skb |-> IF alloc_ok
                  THEN create_tagged_skb(f.skb_std, f.is_vlan, f.sequence_nr,
                                         port, priv.prot_ver)
                  ELSE NoSkb,
          shares |-> "none"]

\* The copy for the master: a clone of skb_std, which is made first when the
\* frame arrived tagged. When that fails skb_clone is called with NULL.
frame_get_stripped_skb(f, copy_ok, clone_ok) ==
    LET std == IF f.skb_std # NoSkb THEN f.skb_std
               ELSE IF copy_ok THEN create_stripped_skb(f.skb_hsr, f.is_vlan)
               ELSE NoSkb
    IN [skb_std |-> std,
        null_deref |-> std = NoSkb,
        skb |-> IF std # NoSkb /\ clone_ok THEN std ELSE NoSkb]

\* The buffer handed to netif_rx, before skb_pull(ETH_HLEN).
hsr_prp_deliver_master(b, node_src) ==
    IF ~priv.rx_offloaded
    THEN [b EXCEPT !.data = hsr_addr_subst_source(node_src, b.data)]
    ELSE b

\* A transmission that substitutes the addresses whatever the mode and port.
hsr_prp_xmit_always_subst(b, port, f) ==
    [b EXCEPT !.data = SetWords(hsr_addr_subst_dest(b.data, port),
                                ETH_ALEN \div 2 + 1, dev_addr(port))]

\* The buffer handed to dev_queue_xmit.
hsr_prp_xmit(b, port, f) ==
    IF ~priv.rx_offloaded /\ f.port_rcv = HSR_PRP_PT_MASTER
    THEN [b EXCEPT !.data = SetWords(hsr_addr_subst_dest(b.data, port),
                                     Words(ETH_ALEN) + 1, dev_addr(port))]
    ELSE b

Entry(port, what, b) == [port |-> port, what |-> what, skb |-> b]

\* The loop goes on to the next port.
Continue(t, e, f2, reg, o2, h2) ==
    /\ log' = [log EXCEPT ![t] = Append(@, e)]
    /\ frame' = [frame EXCEPT ![t] = f2]
    /\ seq_out' = reg
    /\ obs' = [obs EXCEPT ![t] = o2]
    /\ hist' = h2
    /\ idx' = [idx EXCEPT ![t] = @ + 1]
    /\ pc' = pc

\* skb_clone(NULL) reads through the null pointer: the cpu stops in the pass.
Fault(t, port, f2, reg, o2, h2) ==
    /\ log' = [log EXCEPT ![t] = Append(@, Entry(port, "oops", NoSkb))]
    /\ frame' = [frame EXCEPT ![t] = f2]
    /\ seq_out' = reg
    /\ obs' = [obs EXCEPT ![t] = o2]
    /\ hist' = h2
    /\ idx' = idx
    /\ pc' = [pc EXCEPT ![t] = "oops"]

\* The history of dispatches, per (node, sequence_nr, port); a frame without a
\* source node (receive offloaded) has no key.
Dispatched(port, f) ==
    IF f.node_src = UNINIT THEN hist
    ELSE [hist EXCEPT !.dispatched = Bump(@, <<f.node_src, f.sequence_nr, port>>)]

\* What a write through a clone does to the buffer it shares its data with.
Written(f, shares, b) ==
    IF shares = "skb_hsr" THEN [f EXCEPT !.skb_hsr.data = b.data]
    ELSE IF shares = "skb_std" THEN [f EXCEPT !.skb_std.data = b.data]
    ELSE f

\* The outcomes of an allocation: it succeeds, or there is no memory.
Allocs == IF hist.nomem < MaxNoMem THEN BOOLEAN ELSE {TRUE}

NoMem(n) == [hist EXCEPT !.nomem = @ + n]

\* One round of the loop of hsr_prp_forward_do.
ForwardPort(t) ==
    /\ pc[t] = "forward_do"
    /\ idx[t] <= Len(priv.ports)
    /\ LET port == priv.ports[idx[t]]
           f == frame[t]
           o == obs[t]
       IN IF skip_rcv(port, f)
          THEN Continue(t, Entry(port, "skip_rcv", NoSkb), f, seq_out, o, hist)
          ELSE IF skip_not_local(port, f)
          THEN Continue(t, Entry(port, "skip_not_local", NoSkb), f, seq_out, o, hist)
          ELSE IF skip_exclusive(port, f)
          THEN Continue(t, Entry(port, "skip_exclusive", NoSkb), f, seq_out, o, hist)
          ELSE LET asked == check_dup(port)
                   o1 == IF asked THEN [o EXCEPT !.register_out = @ + 1] ELSE o
                   reg == IF asked THEN seq_out \cup {out_key(port, f)} ELSE seq_out
               IN IF asked /\ hsr_register_frame_out(out_key(port, f))
                  THEN Continue(t, Entry(port, "skip_dup", NoSkb), f, reg, o1, hist)
                  ELSE IF intercept_sup(port, f)
                  THEN Continue(t, Entry(port, "sup", f.skb_hsr), f, reg,
                                [o1 EXCEPT !.handle_sup = @ + 1], hist)
                  ELSE IF skip_l2(port, f)
                  THEN Continue(t, Entry(port, "skip_l2", NoSkb), f, reg, o1, hist)
                  ELSE IF port # HSR_PRP_PT_MASTER
                  THEN \E alloc_ok \in Allocs :
                         LET g == frame_get_tagged_skb(f, port, alloc_ok)
                             x == hsr_prp_xmit(g.skb, port, f)
                         IN IF g.skb = NoSkb
                            THEN Continue(t, Entry(port, "no_skb", NoSkb), f, reg,
                                          [o1 EXCEPT !.nomem = @ + 1],
                                          NoMem(IF alloc_ok THEN 0 ELSE 1))
                            ELSE Continue(t, Entry(port, "xmit", x),
                                          Written(f, g.shares, x), reg, o1,
                                          Dispatched(port, f))
                  ELSE \E copy_ok \in Allocs, clone_ok \in Allocs,
                          stops \in BOOLEAN :
                         LET g == frame_get_stripped_skb(f, copy_ok, clone_ok)
                             f2 == [f EXCEPT !.skb_std = g.skb_std]
                             d == hsr_prp_deliver_master(g.skb, f.node_src)
                         IN IF g.null_deref /\ stops
                            THEN Fault(t, port, f2, reg,
                                       [o1 EXCEPT !.nomem = @ + 1], NoMem(1))
                            ELSE IF g.skb = NoSkb
                            THEN Continue(t, Entry(port, "no_skb", NoSkb), f2, reg,
                                          [o1 EXCEPT !.nomem = @ + 1], NoMem(1))
                            ELSE Continue(t, Entry(port, "deliver", d),
                                          Written(f2, "skb_std", d), reg, o1,
                                          Dispatched(port, f))
    /\ UNCHANGED <<priv, cpus, sequence_nr, seqnr_lock, tx_dropped, nrecv,
                   skb, port_in>>

\* After the loop: kfree_skb(frame.skb_hsr), kfree_skb(frame.skb_std). The
\* received buffer is skb_hsr when the frame arrived tagged, else skb_std.
Release(t) ==
    /\ pc[t] = "forward_do"
    /\ idx[t] > Len(priv.ports)
    /\ LET f == frame[t]
           orig == IF f.skb_hsr # NoSkb THEN 1
                   ELSE IF f.skb_std # NoSkb THEN 1 ELSE 0
           derived == IF f.skb_hsr # NoSkb /\ f.skb_std # NoSkb THEN 1 ELSE 0
       IN obs' = [obs EXCEPT ![t].kfree_skb = @ + orig,
                             ![t].kfree_std = @ + derived]
    /\ pc' = [pc EXCEPT ![t] = "done"]
    /\ UNCHANGED <<priv, cpus, sequence_nr, seqnr_lock, seq_out, tx_dropped,
                   nrecv, hist, skb, port_in, frame, idx, log>>

\* hsr_prp_forward_skb returns; the cpu is free for the next frame.
Return(t) ==
    /\ pc[t] \in {"done", "dropped"}
    /\ pc' = [pc EXCEPT ![t] = "idle"]
    /\ skb' = [skb EXCEPT ![t] = NoSkb]
    /\ port_in' = [port_in EXCEPT ![t] = NULL]
    /\ frame' = [frame EXCEPT ![t] = NoFrame]
    /\ idx' = [idx EXCEPT ![t] = 0]
    /\ log' = [log EXCEPT ![t] = <<>>]
    /\ obs' = [obs EXCEPT ![t] = NoObs]
    /\ UNCHANGED <<priv, cpus, sequence_nr, seqnr_lock, seq_out, tx_dropped,
                   nrecv, hist>>

Next ==
    \E t \in Cpus :
        \/ Receive(t)
        \/ FillFrameInfo(t)
        \/ SeqLock(t)
        \/ SeqRead(t)
        \/ SeqInc(t)
        \/ SeqUnlock(t)
        \/ RegisterIn(t)
        \/ ForwardPort(t)
        \/ Release(t)
        \/ Drop(t)
        \/ Return(t)

Spec == Init /\ [][Next]_vars

SpecSMP == InitSMP /\ [][Next]_vars

\* ------------------------------------------------------------ properties
Slaves == {HSR_PRP_PT_SLAVE_A, HSR_PRP_PT_SLAVE_B}

Served == {"xmit", "deliver"}

\* The pass of cpu t has classified its frame and is in, or through, the loop.
InLoop(t) == pc[t] \in {"forward_do", "done", "oops"}

Done(t) == pc[t] = "done"

\* The entries of the pass of cpu t for port p with an outcome in W.
NumWhat(t, p, W) ==
    Cardinality({i \in DOMAIN log[t] : log[t][i].port = p /\ log[t][i].what \in W})

\* The loop reached the copy for port p: no exclusion rule skipped it.
Survived(t, p) == NumWhat(t, p, {"xmit", "deliver", "no_skb", "oops"}) > 0

\* The loop takes the ports in their order, one entry each.
InOrder(t) ==
    /\ Len(log[t]) <= Len(priv.ports)
    /\ \A i \in DOMAIN log[t] : log[t][i].port = priv.ports[i]
    /\ Done(t) => Len(log[t]) = Len(priv.ports)

Key(t, p) == <<frame[t].node_src, frame[t].sequence_nr, p>>

\* The passes of t and u handle the two duplicates of one frame, one from
\* each slave, both locally destined.
Duplicates(t, u) ==
    /\ frame[t].port_rcv = HSR_PRP_PT_SLAVE_A
    /\ frame[u].port_rcv = HSR_PRP_PT_SLAVE_B
    /\ frame[t].node_src = frame[u].node_src
    /\ frame[t].sequence_nr = frame[u].sequence_nr
    /\ frame[t].is_local_dest /\ frame[u].is_local_dest
    /\ ~frame[t].is_supervision /\ ~frame[u].is_supervision

Added(t) == Len(log'[t]) = Len(log[t]) + 1

C4_ExclusiveDeliveredToMaster ==
    \A t \in Cpus :
        (Done(t) /\ frame[t].is_local_exclusive /\ hist.nomem = 0) =>
            /\ NumWhat(t, HSR_PRP_PT_MASTER, {"deliver"}) = 1
            /\ \A p \in PortTypes \ {HSR_PRP_PT_MASTER} : NumWhat(t, p, Served) = 0

\* C4, amended: a frame to the node's own address is locally destined and is
\* dispatched to no port other than the master, whatever port it arrived on.
\* It is delivered to the master at most once: not when it arrived on the
\* master, not when the registry reports it as already delivered, and not
\* when no copy is obtained; otherwise exactly once.
C4_ExclusiveOnlyToMaster ==
    \A t \in Cpus :
        (InLoop(t) /\ frame[t].is_local_exclusive) =>
            /\ frame[t].is_local_dest
            /\ \A p \in PortTypes \ {HSR_PRP_PT_MASTER} : NumWhat(t, p, Served) = 0
            /\ NumWhat(t, HSR_PRP_PT_MASTER, {"deliver"}) <= 1
            /\ \A i \in DOMAIN log[t] :
                 LET e == log[t][i]
                 IN IF e.port = frame[t].port_rcv THEN e.what = "skip_rcv"
                    ELSE IF e.port # HSR_PRP_PT_MASTER
                    THEN e.what = "skip_exclusive"
                    ELSE /\ e.what \in {"deliver", "skip_dup", "no_skb", "oops"}
                         /\ e.what = "skip_dup" => ~priv.rx_offloaded
                         /\ e.what \in {"no_skb", "oops"} => obs[t].nomem > 0

\* C4, witness: a frame to the node's own address from slave A was delivered
\* to the master and kept from slave B.
C4_Witness ==
    \E t \in Cpus :
        /\ Done(t)
        /\ frame[t].is_local_exclusive
        /\ frame[t].port_rcv = HSR_PRP_PT_SLAVE_A
        /\ NumWhat(t, HSR_PRP_PT_MASTER, {"deliver"}) = 1
        /\ NumWhat(t, HSR_PRP_PT_SLAVE_B, {"skip_exclusive"}) = 1

\* A supervision frame from a slave, receive offload disabled.
SupFromSlave(t) ==
    /\ pc[t] # "idle"
    /\ skb[t].mac_ok
    /\ is_supervision_frame(skb[t].data)
    /\ port_in[t] \in Slaves
    /\ ~priv.rx_offloaded

\* C5, as claimed: a supervision frame from a slave, receive offload disabled,
\* is handed to hsr_prp_handle_sup_frame and never delivered to the master.
\* It is stated for the frames that pass classification, where it is violated
\* as well.
C5_SupervisionConsumed ==
    \A t \in Cpus :
        (SupFromSlave(t) /\ Done(t)) =>
            /\ obs[t].handle_sup = 1
            /\ NumWhat(t, HSR_PRP_PT_MASTER, {"deliver"}) = 0

\* C5, amended: a supervision frame from a slave, receive offload disabled, is
\* never delivered to the master. It is handed to hsr_prp_handle_sup_frame, as
\* received, once and at the master only, when the lookup of its sender
\* succeeds and the registry does not report it as already delivered to the
\* master; a frame whose lookup fails is dropped, and a duplicate is skipped
\* at the master, neither being handed over.
C5_SupervisionNeverDelivered ==
    \A t \in Cpus :
        SupFromSlave(t) =>
            /\ NumWhat(t, HSR_PRP_PT_MASTER, {"deliver"}) = 0
            /\ obs[t].handle_sup = NumWhat(t, HSR_PRP_PT_MASTER, {"sup"})
            /\ obs[t].handle_sup <= 1
            /\ \A i \in DOMAIN log[t] :
                 LET e == log[t][i]
                 IN /\ e.what = "sup" =>
                         e.port = HSR_PRP_PT_MASTER /\ e.skb.data = skb[t].data
                    /\ e.port = HSR_PRP_PT_MASTER => e.what \in {"sup", "skip_dup"}
            /\ pc[t] \in {"out_drop", "dropped"} =>
                 frame[t].node_src = NULL /\ obs[t].handle_sup = 0
            /\ Done(t) => NumWhat(t, HSR_PRP_PT_MASTER, {"sup", "skip_dup"}) = 1

\* C5, witness: a supervision frame from slave A was handed to
\* hsr_prp_handle_sup_frame and the pass ended without a local delivery.
C5_Witness ==
    \E t \in Cpus :
        /\ SupFromSlave(t)
        /\ Done(t)
        /\ port_in[t] = HSR_PRP_PT_SLAVE_A
        /\ obs[t].handle_sup = 1
        /\ NumWhat(t, HSR_PRP_PT_MASTER, {"sup"}) = 1

\* C6: no pass transmits or delivers a copy on the port its frame was
\* received on: the one thing a pass does at that port is skip it.
C6_NeverBackToReceivingPort ==
    \A t \in Cpus :
        /\ InLoop(t) => frame[t].port_rcv = port_in[t]
        /\ \A i \in DOMAIN log[t] :
             log[t][i].port = port_in[t] =>
                 log[t][i].what = "skip_rcv" /\ log[t][i].skb = NoSkb

\* C6, witness: a pass that served other ports has skipped its receiving port.
C6_Witness ==
    \E t \in Cpus :
        /\ Done(t)
        /\ NumWhat(t, port_in[t], {"skip_rcv"}) = 1
        /\ \E p \in PortTypes \ {port_in[t]} : NumWhat(t, p, Served) = 1

\* The pass of cpu t is between taking and releasing seqnr_lock.
InLock(t) == pc[t] \in {"seq_read", "seq_inc", "seq_unlock"}

\* The pass of cpu t has its sequence number.
Numbered(t) == pc[t] \in {"seq_inc", "seq_unlock", "register_in"} \/ InLoop(t)

\* The frame of cpu t arrived with a redundancy tag.
ArrivedTagged(t) ==
    h_proto(skb[t].data) = ETH_P_PRP \/ h_proto(skb[t].data) = ETH_P_HSR

\* C7: the counter is read and incremented by the cpu that holds seqnr_lock,
\* which is held for nothing else; every value of the counter is given to one
\* untagged frame only, under every interleaving (within one wrap); the
\* counter is its first value plus the number of untagged frames numbered so
\* far, modulo 2^16, so that tagged frames leave it as it is; and a tagged
\* frame has the sequence number of its tag.
C7_SequenceCounterUnderLock ==
    /\ \A t \in Cpus : InLock(t) <=> seqnr_lock = t
    /\ \A k \in DOMAIN hist.assigned : hist.assigned[k] = 1
    /\ sequence_nr =
         (hist.seq0 + Cardinality(DOMAIN hist.assigned)
            - Cardinality({t \in Cpus : pc[t] = "seq_inc"})) % SEQNR_MOD
    /\ \A t \in Cpus :
         /\ pc[t] = "seq_inc" => frame[t].sequence_nr = sequence_nr
         /\ pc[t] = "seq_unlock" =>
              sequence_nr = (frame[t].sequence_nr + 1) % SEQNR_MOD
         /\ Numbered(t) =>
              IF ArrivedTagged(t)
              THEN /\ frame[t].sequence_nr = Word(skb[t].data, 9)
                   /\ frame[t].skb_hsr # NoSkb
              ELSE /\ frame[t].sequence_nr \in DOMAIN hist.assigned
                   /\ frame[t].skb_std # NoSkb
    /\ \A t, u \in Cpus :
         (t # u /\ Numbered(t) /\ Numbered(u)
            /\ ~ArrivedTagged(t) /\ ~ArrivedTagged(u)) =>
              frame[t].sequence_nr # frame[u].sequence_nr

\* C7, witness: two untagged frames classified at the same time have the last
\* value of the counter and, after the wrap, the first.
C7_Witness ==
    \E t, u \in Cpus :
        /\ t # u
        /\ InLoop(t) /\ InLoop(u)
        /\ ~ArrivedTagged(t) /\ ~ArrivedTagged(u)
        /\ frame[t].sequence_nr = SEQNR_MOD - 1
        /\ frame[u].sequence_nr = 0
        /\ sequence_nr = 1

\* C8, as claimed: a pass in which an allocation failed goes on with the
\* remaining ports, evaluates every port and releases the buffers: it is
\* never stopped in the loop.
C8_AllocFailureDropsOneReplica ==
    \A t \in Cpus :
        obs[t].nomem > 0 =>
            /\ pc[t] \in {"forward_do", "done"}
            /\ Done(t) => Len(log[t]) = Len(priv.ports) /\ obs[t].kfree_skb = 1

\* C8, the failing case: the stripped copy of a tagged frame cannot be
\* allocated, skb_clone is called with NULL and the pass stops at the master,
\* before the ports after it and before the buffers are released.
C8_Witness ==
    \E t \in Cpus :
        /\ pc[t] = "oops"
        /\ frame[t].skb_hsr # NoSkb /\ frame[t].skb_std = NoSkb
        /\ log[t][Len(log[t])].port = HSR_PRP_PT_MASTER
        /\ Len(log[t]) < Len(priv.ports)
        /\ obs[t].kfree_skb = 0

\* C9: a buffer whose mac header is not at the start of the data goes to
\* out_drop and nowhere else: no lookup of the sender, no call of
\* hsr_register_frame_in or hsr_register_frame_out, no copy transmitted or
\* delivered, the sequence counter and the registry as they were; the drop
\* counter of the receiving port goes up by one, in the one step that also
\* releases the buffer, and the buffer is released once.
C9_MalformedOnlyDropped ==
    [][\A t \in Cpus :
         /\ ~skb'[t].mac_ok =>
              /\ pc'[t] \in {"out_drop", "dropped"}
              /\ log'[t] = <<>>
              /\ frame'[t] = NoFrame
              /\ obs'[t] = [NoObs EXCEPT !.kfree_skb =
                                IF pc'[t] = "dropped" THEN 1 ELSE 0]
         /\ (~skb[t].mac_ok /\ pc'[t] # pc[t]) =>
              /\ sequence_nr' = sequence_nr
              /\ seq_out' = seq_out
              /\ hist' = hist
              /\ IF pc[t] = "out_drop"
                 THEN /\ pc'[t] = "dropped"
                      /\ tx_dropped' =
                           [tx_dropped EXCEPT ![port_in[t]] = @ + 1]
                 ELSE /\ pc[t] = "dropped"
                      /\ pc'[t] = "idle"
                      /\ tx_dropped' = tx_dropped]_vars

\* C9, witness: a malformed buffer from slave A was dropped and counted.
C9_Witness ==
    \E t \in Cpus :
        /\ ~skb[t].mac_ok
        /\ pc[t] = "dropped"
        /\ port_in[t] = HSR_PRP_PT_SLAVE_A
        /\ tx_dropped[HSR_PRP_PT_SLAVE_A] = 1
        /\ obs[t].kfree_skb = 1

\* A well formed frame with the 802.1Q ethertype.
VlanPass(t) ==
    /\ pc[t] # "idle"
    /\ skb[t].mac_ok
    /\ h_proto(skb[t].data) = ETH_P_8021Q

Ended(t) == pc[t] \in {"done", "dropped", "oops"}

\* The stripped buffer was created and cached in the frame of cpu t.
StrippedCached(t) == frame[t].skb_hsr # NoSkb /\ frame[t].skb_std # NoSkb

\* C11, as claimed: when a call of hsr_prp_forward_skb has ended, on the drop
\* path or the normal one, the received buffer has been released once, the
\* cached stripped buffer once if it was created, and nothing was released
\* before the end; every copy obtained for a port went to one sink, so that a
\* port has at most one dispatch.
C11_BuffersReleasedOnce ==
    \A t \in Cpus :
        /\ Ended(t) =>
             /\ obs[t].kfree_skb = 1
             /\ obs[t].kfree_std = IF StrippedCached(t) THEN 1 ELSE 0
        /\ (pc[t] # "idle" /\ ~Ended(t)) =>
             obs[t].kfree_skb = 0 /\ obs[t].kfree_std = 0
        /\ \A p \in PortTypes : NumWhat(t, p, Served) <= 1

\* C11, the failing case: the pass of a tagged frame was stopped at the
\* master by skb_clone(NULL) and the received buffer was never released.
C11_Witness ==
    \E t \in Cpus :
        /\ pc[t] = "oops"
        /\ skb[t] # NoSkb
        /\ frame[t].skb_hsr # NoSkb
        /\ obs[t].kfree_skb = 0 /\ obs[t].kfree_std = 0

\* Sequence numbers a tag is written with, besides the frame's own.
RoundTripSeqs == {0, 4660, SEQNR_MOD - 1}

\* The frame of cpu t passed classification and arrived untagged, without
\* the 802.1Q ethertype.
PlainUntagged(t) ==
    /\ Numbered(t)
    /\ ~ArrivedTagged(t)
    /\ h_proto(skb[t].data) # ETH_P_8021Q

\* C12: for every untagged frame without the 802.1Q ethertype, every lane,
\* sequence number and protocol version, create_stripped_skb of the frame
\* made by create_tagged_skb gives back the frame: its ethertype, its
\* destination and source address and its payload, nothing more and nothing
\* less; the tagged frame differs from the frame and is as it was when
\* create_stripped_skb returns. The two functions are applied to the frame at
\* the end of its classification.
C12_StripAfterTagRoundTrip ==
    \A t \in Cpus :
        (pc[t] = "register_in" /\ PlainUntagged(t)) =>
            \A lane \in Slaves, ver \in {0, 1},
               seq \in RoundTripSeqs \cup {frame[t].sequence_nr} :
                LET f == skb[t]
                    tagged == create_tagged_skb(f, FALSE, seq, lane, ver)
                    back == create_stripped_skb(tagged, FALSE)
                IN /\ h_proto(back.data) = h_proto(f.data)
                   /\ h_dest(back.data) = h_dest(f.data)
                   /\ h_source(back.data) = h_source(f.data)
                   /\ Len(back.data) = Len(f.data)
                   /\ SubSeq(back.data, Words(ETH_HLEN) + 1, Len(back.data))
                        = SubSeq(f.data, Words(ETH_HLEN) + 1, Len(f.data))
                   /\ Len(tagged.data) = Len(f.data) + Words(HSR_PRP_HLEN)
                   /\ h_proto(tagged.data) \in {ETH_P_PRP, ETH_P_HSR}
                   /\ create_stripped_skb_in(tagged) = tagged

\* C12, witness: an untagged frame from slave A was tagged for slave B, and
\* the copy that was transmitted strips back to the frame as received.
C12_Witness ==
    \E t \in Cpus :
        /\ PlainUntagged(t)
        /\ port_in[t] = HSR_PRP_PT_SLAVE_A
        /\ \E i \in DOMAIN log[t] :
             /\ log[t][i].port = HSR_PRP_PT_SLAVE_B
             /\ log[t][i].what = "xmit"
             /\ h_proto(log[t][i].skb.data) \in {ETH_P_PRP, ETH_P_HSR}
             /\ create_stripped_skb(log[t][i].skb, FALSE).data = skb[t].data

\* The lane of a tag: the four high bits of its first word.
tag_path(data) == tag_path_and_LSDU_size(data) \div 4096

NotForUs(t) ==
    /\ h_dest(skb[t].data) # ADDR_SELF
    /\ skb[t].pkt_type \notin {PACKET_HOST, PACKET_MULTICAST, PACKET_BROADCAST}

\* The rounds of the pass of cpu t that went past the first three tests.
PastLocalTests(t) ==
    {i \in DOMAIN log[t] :
        log[t][i].what \notin {"skip_rcv", "skip_not_local", "skip_exclusive"}}

\* C14: a frame that is not locally destined is marked so, is skipped at the
\* master before hsr_register_frame_out is called, and is never delivered:
\* the pass calls hsr_register_frame_out only in the rounds of other ports.
C14_NotLocalNeverToMaster ==
    \A t \in Cpus :
        (InLoop(t) /\ NotForUs(t)) =>
            /\ ~frame[t].is_local_dest /\ ~frame[t].is_local_exclusive
            /\ NumWhat(t, HSR_PRP_PT_MASTER, {"deliver", "sup", "skip_dup",
                                              "no_skb", "oops"}) = 0
            /\ \A i \in DOMAIN log[t] :
                 log[t][i].port = HSR_PRP_PT_MASTER =>
                    /\ log[t][i].what = "skip_not_local"
                    /\ i \notin PastLocalTests(t)
            /\ obs[t].register_out =
                 IF priv.rx_offloaded THEN 0 ELSE Cardinality(PastLocalTests(t))

\* C14, witness: a frame for another station from slave A was transmitted on
\* slave B and skipped at the master, whose triple is not in the registry.
C14_Witness ==
    \E t \in Cpus :
        /\ Done(t) /\ NotForUs(t)
        /\ ~priv.rx_offloaded
        /\ port_in[t] = HSR_PRP_PT_SLAVE_A
        /\ NumWhat(t, HSR_PRP_PT_MASTER, {"skip_not_local"}) = 1
        /\ NumWhat(t, HSR_PRP_PT_SLAVE_B, {"xmit"}) = 1
        /\ Key(t, HSR_PRP_PT_MASTER) \notin seq_out
        /\ obs[t].register_out = 1

\* The copy the pass of cpu t obtains for port p, before any substitution of
\* addresses, from the frame as received.
PlainCopy(t, p) ==
    LET own == [skb[t] EXCEPT !.pkt_type = check_local_dest(skb[t]).pkt_type]
    IN IF p = HSR_PRP_PT_MASTER
       THEN IF ArrivedTagged(t)
            THEN create_stripped_skb(own, frame[t].is_vlan) ELSE own
       ELSE IF ArrivedTagged(t) THEN own
            ELSE create_tagged_skb(own, frame[t].is_vlan, frame[t].sequence_nr,
                                   p, priv.prot_ver)

\* C15: with receive offloaded, a pass makes no call of hsr_prp_get_node,
\* hsr_register_frame_in, hsr_register_frame_out or
\* hsr_prp_handle_sup_frame, its node_src is never set, the registry stays
\* empty and no port is skipped as a duplicate; and every copy that is
\* delivered or transmitted has the addresses of the frame as received.
C15_OffloadedUsesNoPeer ==
    priv.rx_offloaded =>
        /\ seq_out = {}
        /\ \A t \in Cpus :
             /\ obs[t].get_node = 0
             /\ obs[t].register_in = 0
             /\ obs[t].register_out = 0
             /\ obs[t].handle_sup = 0
             /\ frame[t].node_src = UNINIT
             /\ \A i \in DOMAIN log[t] :
                  LET e == log[t][i]
                  IN /\ e.what \notin {"skip_dup", "sup"}
                     /\ e.what \in Served => e.skb = PlainCopy(t, e.port)

\* C15, witness: with receive offloaded, a frame from the master to interface
\* A of the peer left through slave B with its destination as it was, and a
\* second frame is being handled.
C15_Witness ==
    \E t \in Cpus :
        /\ priv.rx_offloaded
        /\ Done(t)
        /\ nrecv = 2
        /\ port_in[t] = HSR_PRP_PT_MASTER
        /\ h_dest(skb[t].data) = ADDR_N1_A
        /\ \E i \in DOMAIN log[t] :
             /\ log[t][i].port = HSR_PRP_PT_SLAVE_B
             /\ log[t][i].what = "xmit"
             /\ h_dest(log[t][i].skb.data) = ADDR_N1_A

\* The other slave.
OtherSlave(p) ==
    IF p = HSR_PRP_PT_SLAVE_A THEN HSR_PRP_PT_SLAVE_B ELSE HSR_PRP_PT_SLAVE_A

\* C16: with l2_fwd_offloaded, a frame received on one slave is never
\* transmitted on the other. The flag skips nothing else: only a round for a
\* slave, of a frame from the other slave, with the flag set, ends at the L2
\* test; and with the flag set a frame from the master is still transmitted
\* on both slaves, when it is not addressed to the node itself, no slave's
\* triple was in the registry and no allocation failed.
C16_NoCrossSlaveWhenOffloaded ==
    \A t \in Cpus :
        InLoop(t) =>
            /\ (priv.l2_fwd_offloaded /\ frame[t].port_rcv \in Slaves) =>
                 /\ NumWhat(t, OtherSlave(frame[t].port_rcv), Served) = 0
                 /\ \A i \in DOMAIN log[t] :
                      log[t][i].port = OtherSlave(frame[t].port_rcv) =>
                          log[t][i].what \in {"skip_exclusive", "skip_dup",
                                              "skip_l2"}
            /\ \A i \in DOMAIN log[t] :
                 log[t][i].what = "skip_l2" =>
                    /\ priv.l2_fwd_offloaded
                    /\ frame[t].port_rcv \in Slaves
                    /\ log[t][i].port = OtherSlave(frame[t].port_rcv)
            /\ (/\ Done(t)
                /\ frame[t].port_rcv = HSR_PRP_PT_MASTER
                /\ ~frame[t].is_local_exclusive
                /\ obs[t].nomem = 0
                /\ \A p \in PortTypes : NumWhat(t, p, {"skip_dup"}) = 0) =>
                 \A p \in Slaves : NumWhat(t, p, {"xmit"}) = 1

\* C16, witness: with l2_fwd_offloaded, a broadcast frame from slave A was
\* delivered to the master and stopped at the L2 test for slave B.
C16_Witness ==
    \E t \in Cpus :
        /\ priv.l2_fwd_offloaded
        /\ Done(t)
        /\ port_in[t] = HSR_PRP_PT_SLAVE_A
        /\ NumWhat(t, HSR_PRP_PT_MASTER, {"deliver"}) = 1
        /\ NumWhat(t, HSR_PRP_PT_SLAVE_B, {"skip_l2"}) = 1

\* C17: a step that calls hsr_prp_handle_sup_frame is the first of its pass
\* to do so; the frame is a supervision frame, receive is not offloaded, the
\* round is the master's, the frame did not arrive on the master, and
\* hsr_register_frame_out has just found the master's triple not yet in the
\* registry; the buffer handed over is the received, tagged one; and a pass
\* that made the call has no delivery to the master, then or later.
C17_SupHandlerAtMostOnce ==
    [][\A t \in Cpus :
         /\ obs'[t].handle_sup > obs[t].handle_sup =>
              /\ obs[t].handle_sup = 0 /\ obs'[t].handle_sup = 1
              /\ is_supervision_frame(skb[t].data)
              /\ ~priv.rx_offloaded
              /\ priv.ports[idx[t]] = HSR_PRP_PT_MASTER
              /\ port_in[t] # HSR_PRP_PT_MASTER
              /\ Key(t, HSR_PRP_PT_MASTER) \notin seq_out
              /\ Key(t, HSR_PRP_PT_MASTER) \in seq_out'
              /\ obs'[t].register_out = obs[t].register_out + 1
              /\ Added(t)
              /\ log'[t][Len(log'[t])].port = HSR_PRP_PT_MASTER
              /\ log'[t][Len(log'[t])].what = "sup"
              /\ log'[t][Len(log'[t])].skb = frame[t].skb_hsr
              /\ log'[t][Len(log'[t])].skb.data = skb[t].data
              /\ ArrivedTagged(t)
         /\ obs'[t].handle_sup <= 1
         /\ obs'[t].handle_sup = 1 =>
              \A i \in DOMAIN log'[t] :
                  log'[t][i].port = HSR_PRP_PT_MASTER => log'[t][i].what = "sup"]_vars

\* C17, witness: the pass of a supervision frame from slave B has called
\* hsr_prp_handle_sup_frame once, with the frame as received, and has ended.
C17_Witness ==
    \E t \in Cpus :
        /\ Done(t)
        /\ port_in[t] = HSR_PRP_PT_SLAVE_B
        /\ obs[t].handle_sup = 1
        /\ \E i \in DOMAIN log[t] :
             /\ log[t][i].what = "sup"
             /\ log[t][i].skb.data = skb[t].data
        /\ NumWhat(t, HSR_PRP_PT_MASTER, {"deliver"}) = 0

ClassFailed(t) == skb[t].mac_ok /\ pc[t] \in {"out_drop", "dropped"}

\* A supervision frame from a port other than the master while receive is
\* offloaded.
SupWhileOffloaded(t) ==
    /\ is_supervision_frame(skb[t].data)
    /\ priv.rx_offloaded
    /\ port_in[t] # HSR_PRP_PT_MASTER

\* C19: hsr_prp_fill_frame_info fails for a supervision frame from a port
\* other than the master while receive is offloaded, and for a frame whose
\* sender hsr_prp_get_node does not return, and for no other well formed
\* frame. The frame then goes to out_drop and nowhere else: no call of
\* hsr_register_frame_in or hsr_register_frame_out, no copy transmitted or
\* delivered, the sequence counter and the registry as they were; the drop
\* counter of the receiving port goes up by one, in the step that releases
\* the buffer. In the offloaded case hsr_prp_get_node is not called, in the
\* other it is called once.
C19_ClassificationFailureDropsFrame ==
    [][\A t \in Cpus :
         /\ (pc[t] = "fill_frame_info" /\ pc'[t] # pc[t]) =>
              (pc'[t] = "out_drop" <=>
                  \/ SupWhileOffloaded(t)
                  \/ ~priv.rx_offloaded /\ frame'[t].node_src = NULL)
         /\ (pc'[t] # "idle" /\ skb'[t].mac_ok
                /\ pc'[t] \in {"out_drop", "dropped"}) =>
              /\ log'[t] = <<>>
              /\ frame'[t].skb_std = NoSkb
              /\ frame'[t].skb_hsr = NoSkb
              /\ obs'[t] = [NoObs EXCEPT
                    !.get_node = IF priv.rx_offloaded THEN 0 ELSE 1,
                    !.kfree_skb = IF pc'[t] = "dropped" THEN 1 ELSE 0]
         /\ (skb[t].mac_ok /\ pc'[t] # pc[t]
                /\ \/ pc[t] = "fill_frame_info" /\ pc'[t] = "out_drop"
                   \/ pc[t] \in {"out_drop", "dropped"}) =>
              /\ sequence_nr' = sequence_nr
              /\ seqnr_lock' = seqnr_lock
              /\ seq_out' = seq_out
              /\ hist' = hist
              /\ IF pc[t] = "out_drop"
                 THEN /\ pc'[t] = "dropped"
                      /\ tx_dropped' =
                           [tx_dropped EXCEPT ![port_in[t]] = @ + 1]
                 ELSE /\ pc[t] = "dropped" => pc'[t] = "idle"
                      /\ tx_dropped' = tx_dropped]_vars

\* C19, witness: with receive offloaded, a supervision frame from slave A was
\* dropped and counted, and its sender was not looked up.
C19_Witness ==
    \E t \in Cpus :
        /\ ClassFailed(t)
        /\ SupWhileOffloaded(t)
        /\ pc[t] = "dropped"
        /\ port_in[t] = HSR_PRP_PT_SLAVE_A
        /\ tx_dropped[HSR_PRP_PT_SLAVE_A] >= 1
        /\ obs[t].get_node = 0
        /\ obs[t].kfree_skb = 1
        /\ log[t] = <<>>

\* C20, as claimed: no write goes through a clone to the data it shares.
\* The buffers of the frame keep the bytes that were received, and a copy
\* transmitted for a frame from a slave, which hsr_prp_xmit leaves alone, is
\* the copy made from the frame as received. It is stated for the runs in
\* which no allocation fails.
C20_SharedDataNeverWritten ==
    \A t \in Cpus :
        (InLoop(t) /\ hist.nomem = 0) =>
            /\ frame[t].skb_hsr # NoSkb =>
                 frame[t].skb_hsr.data = skb[t].data
            /\ (~ArrivedTagged(t) /\ frame[t].skb_std # NoSkb) =>
                 frame[t].skb_std.data = skb[t].data
            /\ \A i \in DOMAIN log[t] :
                 (log[t][i].what = "xmit"
                    /\ port_in[t] # HSR_PRP_PT_MASTER) =>
                     log[t][i].skb = PlainCopy(t, log[t][i].port)

\* C20, the failing case: an untagged frame from the interface B of node n1
\* came in on slave A and was delivered to the master through a clone of
\* skb_std, in which hsr_prp_deliver_master wrote the address of interface A
\* as source; skb_std holds the written bytes, and the tagged copy made from
\* it for slave B went out with that source.
C20_Witness ==
    \E t \in Cpus :
        /\ InLoop(t)
        /\ hist.nomem = 0
        /\ ~priv.rx_offloaded
        /\ ~ArrivedTagged(t)
        /\ port_in[t] = HSR_PRP_PT_SLAVE_A
        /\ h_source(skb[t].data) = ADDR_N1_B
        /\ NumWhat(t, HSR_PRP_PT_MASTER, {"deliver"}) = 1
        /\ h_source(frame[t].skb_std.data) = ADDR_N1_A
        /\ \E i \in DOMAIN log[t] :
             /\ log[t][i].port = HSR_PRP_PT_SLAVE_B
             /\ log[t][i].what = "xmit"
             /\ h_source(log[t][i].skb.data) = ADDR_N1_A

====
